---- MODULE Spec2Model ----
(***************************************************************************)
(* A model of crates/maple_core/src/stdio_server/provider/hooks/on_move.rs *)
(* (vim-clap): the preview target resolver, the cached preview             *)
(* orchestrator, the scrollbar geometry, the context-line provider and the *)
(* stale-cache guard with its background refresh task.                     *)
(*                                                                         *)
(* The module holds several specifications over one set of variables:      *)
(*   Spec           get_preview against the preview cache                  *)
(*   SpecRefresh    try_refresh_cache and the spawned refresh tasks        *)
(*   SpecParse      parse_preview_target                                   *)
(*   SpecScrollbar  the scrollbar computations of preview_file(_at)        *)
(*   SpecContext    fetch_context_lines                                    *)
(* Each specification leaves the variables of the other components at      *)
(* their initial value.                                                    *)
(***************************************************************************)
EXTENDS Integers, Sequences, FiniteSets, TLC

VARIABLES
    \* ---- stale-cache guard (SpecRefresh)
    job_registry,     \* the job ids reserved in stdio_server::job
    tasks,            \* the spawned spawn_blocking closures, in spawn order
    provider_source,  \* the shared ProviderSource descriptor of the Context
    terminated,       \* ctx.terminated (AtomicBool)
    last_refresh,     \* what the latest try_refresh_cache call did
    \* ---- preview target resolver (SpecParse)
    parsed,           \* the latest parse_preview_target call and its result
    \* ---- scrollbar geometry (SpecScrollbar)
    sb,               \* the latest scrollbar computation and its result
    \* ---- context-line provider (SpecContext)
    cx,               \* the latest fetch_context_lines call and its result
    \* ---- preview orchestrator (Spec)
    env,              \* the session: engine, host, provider, border, build
    preview_cache,    \* preview_manager: target -> the Preview cached for it
    pending,          \* get_preview calls suspended on preview_winwidth
    call              \* the latest finished get_preview call

refreshVars == <<job_registry, tasks, provider_source, terminated, last_refresh>>

previewVars == <<env, preview_cache, pending, call>>

vars == <<refreshVars, parsed, sb, cx, previewVars>>

\* Option of a string: None, or the string itself.
None == "None"

\* Option of a structured value: Nothing, or Some(value).
Nothing == <<>>
Some(value) == <<value>>

(***************************************************************************)
(* Bounds of the model.                                                    *)
(***************************************************************************)
\* The number of refresh tasks spawned in one behaviour.
MaxTasks == 2

\* The largest small line count (start, end, total) of a previewed file.
MaxRows == 5

\* The largest display_winheight.
MaxHeight == 4

\* The largest width of the preview window (container_width).
MaxWidth == 12

\* The most get_preview calls suspended at once.
MaxCalls == 2

(***************************************************************************)
(* Preview target resolver: parse_preview_target                           *)
(*                                                                         *)
(* A path is a sequence of components; an absolute path starts with "/".   *)
(* An error is a record whose message is the sequence of the pieces the    *)
(* format! call concatenates.                                              *)
(***************************************************************************)
\* ctx.cwd: the working directories of the provider contexts.
Cwds == {<<"/", "repo">>, <<"/", "work">>}

IsAbsolute(path) == Len(path) > 0 /\ path[1] = "/"

\* Path::join: an absolute argument replaces the base.
PathJoin(base, path) == IF IsAbsolute(path) THEN path ELSE base \o path

\* str::strip_prefix("./").unwrap_or(fpath), line 166.
StripDotSlash(path) ==
    IF Len(path) > 0 /\ path[1] = "." THEN Tail(path) ELSE path

HomeDir == <<"/", "home", "user">>

\* paths::expand_tilde: `~` becomes the home directory.
expand_tilde(path) ==
    IF Len(path) > 0 /\ path[1] = "~" THEN HomeDir \o Tail(path) ELSE path

\* The raw result lines the resolver is given.
LineGrep     == "src/main.rs:42:5:    let x = 1;"
LineGrepDot  == "./src/lib.rs:7:1:fn f()"
LineFile     == "src/main.rs"
LineAbsFile  == "/etc/hosts"
LineHome     == "~/notes.txt"
LineJump     == "[r0] src/main.rs:10:3:fn main()"
LineBlines   == " 12 let y = 2;"
LineBufTag   == "main:15 [function]"
LineProjTag  == "main:20 [function@src/main.rs]"
LineCommit   == "* 1a2b3c4 fix typo"
LineGarbage  == "???"

CurLines ==
    {LineGrep, LineGrepDot, LineFile, LineAbsFile, LineHome, LineJump,
     LineBlines, LineBufTag, LineProjTag, LineCommit, LineGarbage}

\* PathBuf::from(&curline): the raw line read as a path.
AsPath(line) ==
    CASE line = LineFile    -> <<"src", "main.rs">>
      [] line = LineAbsFile -> <<"/", "etc", "hosts">>
      [] line = LineHome    -> <<"~", "notes.txt">>
      [] OTHER              -> <<line>>

\* curline.starts_with('~'), line 152.
StartsWithTilde(line) == line = LineHome

\* pattern::extract_grep_position: (fpath, lnum, col, cache_line).
extract_grep_position(line) ==
    CASE line = LineGrep ->
           Some([fpath |-> <<"src", "main.rs">>, lnum |-> 42, col |-> 5,
                 cache_line |-> "    let x = 1;"])
      [] line = LineGrepDot ->
           Some([fpath |-> <<".", "src", "lib.rs">>, lnum |-> 7, col |-> 1,
                 cache_line |-> "fn f()"])
      [] OTHER -> Nothing

\* pattern::extract_jump_line_info: (def_kind, fpath, lnum, col).
extract_jump_line_info(line) ==
    CASE line = LineJump ->
           Some([def_kind |-> "r0", fpath |-> <<"src", "main.rs">>,
                 lnum |-> 10, col |-> 3])
      [] OTHER -> Nothing

\* pattern::extract_blines_lnum.
extract_blines_lnum(line) ==
    CASE line = LineBlines -> Some(12)
      [] OTHER -> Nothing

\* pattern::extract_buf_tags_lnum.
extract_buf_tags_lnum(line) ==
    CASE line = LineBufTag -> Some(15)
      [] OTHER -> Nothing

\* pattern::extract_proj_tags: (lnum, path).
extract_proj_tags(line) ==
    CASE line = LineProjTag ->
           Some([lnum |-> 20, path |-> <<"src", "main.rs">>])
      [] OTHER -> Nothing

\* pattern::extract_commit_rev.
extract_commit_rev(line) ==
    CASE line = LineCommit -> Some("1a2b3c4")
      [] OTHER -> Nothing

\* PreviewTarget, lines 101-117.
Directory(path) == [variant |-> "Directory", path |-> path]
File(path) == [variant |-> "File", path |-> path]
LineInFile(path, line_number) ==
    [variant |-> "LineInFile", path |-> path, line_number |-> line_number]
GitCommit(rev) == [variant |-> "GitCommit", rev |-> rev]
HelpTags(subject, doc_filename, runtimepath) ==
    [variant |-> "HelpTags", subject |-> subject,
     doc_filename |-> doc_filename, runtimepath |-> runtimepath]

Ok(value) == [kind |-> "Ok", value |-> value]
Err(message) == [kind |-> "Err", message |-> message]

\* The err closure, lines 130-138. The source quotes the line with
\* backquotes, written here as apostrophes.
ParseError(provider_id, curline) ==
    Err(<<"Failed to parse PreviewTarget for provider_id: ", provider_id,
          " from '", curline, "'">>)

UnknownProviderFallsBackToFile(provider_id, curline, cwd) ==
    Ok([preview_target |-> File(PathJoin(cwd, AsPath(curline))),
        line_content |-> None])

\* The unknown_provider_id arm, lines 201-209.
UnknownProvider(provider_id, curline, cwd) ==
    Err(<<"Failed to parse PreviewTarget, you probably forget to add an implementation for this provider: ",
          provider_id>>)

\* The provider ids of the match arms, lines 149-197.
SupportedProviderIds ==
    {"files", "git_files", "recent_files", "history", "coc_location", "grep",
     "live_grep", "igrep", "dumb_jump", "blines", "tags", "proj_tags",
     "commits", "bcommits"}

\* Provider ids the match has no arm for.
UnsupportedProviderIds == {"frobnicate", "help_tags"}

ProviderIds == SupportedProviderIds \cup UnsupportedProviderIds

\* ctx.env.start_buffer_path
StartBufferPaths == {<<"/", "repo", "src", "open.rs">>}

\* parse_preview_target(curline, ctx), lines 129-213.
parse_preview_target(curline, provider_id, cwd, start_buffer_path) ==
    LET target(t) == Ok([preview_target |-> t, line_content |-> None])
    IN CASE provider_id \in {"files", "git_files"} ->
              target(File(PathJoin(cwd, AsPath(curline))))
         [] provider_id = "recent_files" ->
              target(File(AsPath(curline)))
         [] provider_id = "history" ->
              target(File(IF StartsWithTilde(curline)
                          THEN expand_tilde(AsPath(curline))
                          ELSE PathJoin(cwd, AsPath(curline))))
         [] provider_id \in {"coc_location", "grep", "live_grep", "igrep"} ->
              LET x == extract_grep_position(curline)
              IN IF x = Nothing THEN ParseError(provider_id, curline)
                 ELSE Ok([preview_target |->
                            LineInFile(PathJoin(cwd, StripDotSlash(x[1].fpath)),
                                       x[1].lnum),
                          line_content |-> x[1].cache_line])
         [] provider_id = "dumb_jump" ->
              LET x == extract_jump_line_info(curline)
              IN IF x = Nothing THEN ParseError(provider_id, curline)
                 ELSE target(LineInFile(PathJoin(cwd, x[1].fpath), x[1].lnum))
         [] provider_id = "blines" ->
              LET x == extract_blines_lnum(curline)
              IN IF x = Nothing THEN ParseError(provider_id, curline)
                 ELSE target(LineInFile(start_buffer_path, x[1]))
         [] provider_id = "tags" ->
              LET x == extract_buf_tags_lnum(curline)
              IN IF x = Nothing THEN ParseError(provider_id, curline)
                 ELSE target(LineInFile(start_buffer_path, x[1]))
         [] provider_id = "proj_tags" ->
              LET x == extract_proj_tags(curline)
              IN IF x = Nothing THEN ParseError(provider_id, curline)
                 ELSE target(LineInFile(PathJoin(cwd, x[1].path), x[1].lnum))
         [] provider_id \in {"commits", "bcommits"} ->
              LET x == extract_commit_rev(curline)
              IN IF x = Nothing THEN ParseError(provider_id, curline)
                 ELSE target(GitCommit(x[1]))
         [] OTHER -> UnknownProvider(provider_id, curline, cwd)

\* No call of parse_preview_target has been made yet.
NoParse ==
    [provider_id |-> None, curline |-> None, cwd |-> <<>>,
     result |-> [kind |-> None]]

\* CachedPreviewImpl::new, lines 243-252: resolve the target of a raw line
\* (one resolution per behaviour: the function keeps no state).
ParsePreviewTarget ==
    /\ parsed = NoParse
    /\ \E curline \in CurLines, provider_id \in ProviderIds, cwd \in Cwds,
       start_buffer_path \in StartBufferPaths :
        /\ parsed' = [provider_id |-> provider_id, curline |-> curline,
                      cwd |-> cwd,
                      result |-> parse_preview_target(curline, provider_id,
                                                      cwd, start_buffer_path)]
        /\ UNCHANGED <<refreshVars, sb, cx, previewVars>>

(***************************************************************************)
(* Scrollbar geometry of preview_file and preview_file_at                  *)
(*                                                                         *)
(* Both compute `(x as f32 / total as f32) as usize`.  The casts and the    *)
(* division are modelled as IEEE 754 binary32 does them: a 24-bit          *)
(* significand, round to nearest, ties to even; `as usize` truncates,      *)
(* maps NaN to 0 and saturates +inf to usize::MAX.                         *)
(***************************************************************************)
Min(a, b) == IF a <= b THEN a ELSE b
Max(a, b) == IF a >= b THEN a ELSE b

\* usize::saturating_sub.
SaturatingSub(a, b) == IF a >= b THEN a - b ELSE 0

RECURSIVE Pow2(_)
Pow2(n) == IF n = 0 THEN 1 ELSE 2 * Pow2(n - 1)

RECURSIVE Log2Floor(_)
Log2Floor(n) == IF n < 2 THEN 0 ELSE 1 + Log2Floor(n \div 2)

\* 2^24: every integer up to it is an f32; above it they are spaced apart.
F32Exact == 16777216

\* Stands for usize::MAX, the value of `f32::INFINITY as usize`: larger than
\* every other number of the model.
USIZE_MAX == 2147483647

\* The multiple of unit nearest to num / den, ties to the even multiple.
RoundHalfEven(num, den, unit) ==
    LET d == den * unit
        k == num \div d
        rem == num % d
    IN IF rem > d - rem \/ (rem = d - rem /\ k % 2 = 1)
       THEN (k + 1) * unit
       ELSE k * unit

\* `n as f32` for a usize n, as the integer the f32 holds.
ToF32(n) ==
    IF n <= F32Exact THEN n
    ELSE RoundHalfEven(n, 1, Pow2(Log2Floor(n) - 23))

\* `(a / b) as usize` for two f32 that hold the integers a and b.
F32DivAsUsize(a, b) ==
    IF b = 0 THEN (IF a = 0 THEN 0 ELSE USIZE_MAX)
    ELSE LET q == a \div b
             r == a % b
             \* the binade of the quotient; -1 for a quotient below 1
             e == IF q = 0 THEN 0 - 1 ELSE Log2Floor(q)
         IN IF e >= 23 THEN RoundHalfEven(a, b, Pow2(e - 23))
            ELSE IF r = 0 THEN q
            \* f32 are spaced 2^(e-23) < 1 apart here: the quotient rounds up
            \* to q + 1 when it is within half a spacing of it
            ELSE IF b - r <= b \div Pow2(24 - e) THEN q + 1
            ELSE q

RoundedFileThumbLength(end, total, preview_winheight) ==
    IF total = 0 THEN 0
    ELSE (2 * end * preview_winheight + total) \div (2 * total)

\* Line 409: the thumb length of the whole-file preview, before clamping.
FileThumbLength(end, total, preview_winheight) ==
    F32DivAsUsize(ToF32(end * preview_winheight), ToF32(total))

UnclampedScrollbar(length, top_position, preview_winheight, preview_border_enabled) ==
    IF length = 0 THEN Nothing
    ELSE IF preview_border_enabled
         THEN Some(<<Max(1, top_position), length>>)
         ELSE Some(<<top_position, length>>)

\* A scrollbar clamped to the window height that the host border does not
\* shorten.
BorderUnawareScrollbar(length, top_position, preview_winheight, preview_border_enabled) ==
    IF length = 0 THEN Nothing
    ELSE IF preview_border_enabled
         THEN Some(<<Max(1, top_position), Min(preview_winheight, length)>>)
         ELSE Some(<<top_position, Min(preview_winheight, length)>>)

\* Lines 411-423 and 519-532: no scrollbar for a zero length; otherwise the
\* length is clamped to the window height, and with the host border it is
\* one less when it fills the window and the top is at least 1.
ScrollbarOf(length, top_position, preview_winheight, preview_border_enabled) ==
    IF length = 0 THEN Nothing
    ELSE LET clamped == Min(preview_winheight, length)
         IN IF preview_border_enabled
            THEN Some(<<Max(1, top_position),
                        clamped - (IF clamped = preview_winheight
                                   THEN 1 ELSE 0)>>)
            ELSE Some(<<top_position, clamped>>)

\* Lines 406-426: the scrollbar of preview_file; its top is 0, or 1 with the
\* border.
FileScrollbar(end, total, preview_winheight, preview_border_enabled, should_add_scrollbar) ==
    IF should_add_scrollbar
    THEN ScrollbarOf(FileThumbLength(end, total, preview_winheight), 0,
                     preview_winheight, preview_border_enabled)
    ELSE Nothing

\* Lines 509-513: start moves back by 3 rows when no context lines were added.
AdjustedStart(start, context_lines_is_empty) ==
    IF context_lines_is_empty THEN SaturatingSub(start, 3) ELSE start

\* Lines 515-516: the thumb length of the windowed preview, before clamping.
FileAtThumbLength(start, end, total, preview_winheight) ==
    F32DivAsUsize(ToF32((end - start) * preview_winheight), ToF32(total))

\* Lines 517 and 526-528: `top_position as usize`.
FileAtTopPosition(start, total, preview_winheight) ==
    F32DivAsUsize(ToF32(start * preview_winheight), ToF32(total))

\* Lines 508-535: the scrollbar of preview_file_at.
FileAtScrollbar(start, end, total, context_lines_is_empty, preview_winheight, preview_border_enabled, should_add_scrollbar) ==
    IF should_add_scrollbar
    THEN LET adjusted == AdjustedStart(start, context_lines_is_empty)
         IN ScrollbarOf(
                FileAtThumbLength(adjusted, end, total, preview_winheight),
                FileAtTopPosition(adjusted, total, preview_winheight),
                preview_winheight, preview_border_enabled)
    ELSE Nothing

\* Line numbers and line counts of a file: small ones, and two at the edge
\* of what an f32 holds exactly (a huge file).
Rows == (0 .. MaxRows) \cup {F32Exact, F32Exact + 1}

\* The number of lines a preview window shows is bounded by its height.
WindowRows == 0 .. MaxRows

\* ctx.env.display_winheight: the height of the open preview window.
WinHeights == 1 .. MaxHeight

\* No scrollbar has been computed yet.
NoScrollbarCall ==
    [routine |-> None, start |-> 0, visible_rows |-> 0, total_rows |-> 0,
     window_height |-> 0, border |-> FALSE, length_computed |-> FALSE,
     thumb_length |-> 0, scrollbar |-> Nothing]

\* preview_file computes its scrollbar (lines 403-426), once per behaviour:
\* the computation keeps no state.  `end` is the number
\* of lines shown, at least the title line; Env::should_add_scrollbar(end)
\* answers either way.
PreviewFileScrollbar ==
    /\ sb = NoScrollbarCall
    /\ \E end \in WindowRows \ {0}, total \in Rows, h \in WinHeights,
       border \in BOOLEAN, should_add_scrollbar \in BOOLEAN :
        /\ sb' = [routine |-> "preview_file", start |-> 0,
                  visible_rows |-> end, total_rows |-> total,
                  window_height |-> h, border |-> border,
                  length_computed |-> should_add_scrollbar,
                  thumb_length |-> IF should_add_scrollbar
                                   THEN FileThumbLength(end, total, h)
                                   ELSE 0,
                  scrollbar |-> FileScrollbar(end, total, h, border,
                                              should_add_scrollbar)]
        /\ UNCHANGED <<refreshVars, parsed, cx, previewVars>>

\* preview_file_at computes its scrollbar (lines 508-535) from the window
\* start <= end <= total that previewer::get_file_preview returned;
\* Env::should_add_scrollbar(total) answers either way.
PreviewFileAtScrollbar ==
    /\ sb = NoScrollbarCall
    /\ \E start \in Rows, end \in Rows, total \in Rows, h \in WinHeights,
       border \in BOOLEAN, context_lines_is_empty \in BOOLEAN,
       should_add_scrollbar \in BOOLEAN :
        /\ start <= end /\ end <= total
        /\ end - start \in WindowRows
        /\ LET adjusted == AdjustedStart(start, context_lines_is_empty)
           IN sb' = [routine |-> "preview_file_at", start |-> adjusted,
                     visible_rows |-> end - adjusted, total_rows |-> total,
                     window_height |-> h, border |-> border,
                     length_computed |-> should_add_scrollbar,
                     thumb_length |-> IF should_add_scrollbar
                                      THEN FileAtThumbLength(adjusted, end,
                                                             total, h)
                                      ELSE 0,
                     scrollbar |-> FileAtScrollbar(start, end, total,
                                       context_lines_is_empty, h, border,
                                       should_add_scrollbar)]
        /\ UNCHANGED <<refreshVars, parsed, cx, previewVars>>

(***************************************************************************)
(* Context-line provider: context_tag_with_timeout, fetch_context_lines    *)
(*                                                                         *)
(* A text is a sequence of characters; a character is named by a string:   *)
(* itself for ASCII, "BOX" for the box-drawing line U+2500, "BULB" for the *)
(* marker U+1F4A1, "E_ACUTE" and "CJK" for two- and three-byte letters.    *)
(***************************************************************************)
\* The UTF-8 length of a character.
Utf8Len(c) ==
    CASE c = "BOX"     -> 3
      [] c = "BULB"    -> 4
      [] c = "E_ACUTE" -> 2
      [] c = "CJK"     -> 3
      [] OTHER         -> 1

\* str::len: the length of a text in bytes.
RECURSIVE ByteLen(_)
ByteLen(text) ==
    IF text = <<>> THEN 0 ELSE Utf8Len(Head(text)) + ByteLen(Tail(text))

\* chars().take(n).collect()
TakeChars(text, n) == SubSeq(text, 1, Min(n, Len(text)))

\* The call panicked.
Panic == 0 - 1

\* usize subtraction: with overflow checks (a debug build) an underflow
\* panics, without them (a release build) it wraps around.
Sub(a, b, overflow_checks) ==
    IF a = Panic THEN Panic
    ELSE IF a >= b THEN a - b
    ELSE IF overflow_checks THEN Panic
    ELSE USIZE_MAX - (b - a) + 1

\* str::repeat(n): Some(text), or Nothing when it panics with a capacity
\* overflow because the byte length of the result does not fit a usize.
Repeat(c, n) ==
    IF n = Panic \/ n > USIZE_MAX \div Utf8Len(c) THEN Nothing
    ELSE Some([i \in 1 .. n |-> c])

\* Line 651.
TIMEOUT == 300

\* How long current_context_tag_async takes, in milliseconds.
LookupDelays == {100, 500}

\* Lines 650-660: the tag if the lookup answers within TIMEOUT, else None.
context_tag_with_timeout(lookup) ==
    IF lookup.delay < TIMEOUT THEN lookup.tag ELSE Nothing

\* Line 681.
BLACK_LIST == {"log", "txt", "lock", "toml", "yaml", "mod", "conf"}

\* dumb_analyzer::is_comment(line, ext): a line comment of the language.
is_comment(line, ext) ==
    /\ ext \in {"rs", "go"}
    /\ Len(line) >= 2
    /\ line[1] = "/" /\ line[2] = "/"

\* Lines 690-697: the border of the context block; Vim draws a border of
\* its own, so the line is 2 shorter there.
generate_border_line(container_width, is_nvim, overflow_checks) ==
    Repeat("BOX", IF is_nvim THEN container_width
                  ELSE Sub(container_width, 2, overflow_checks))

MarkerTruncated == <<".", ".", " ", " ", "BULB">>
MarkerWhole == <<" ", " ", "BULB">>

\* Lines 709-721: the pattern line, cut on the right to make room for the
\* marker; Nothing when a subtraction panics.  max_pattern_len is
\* container_width - 4.
PatternLine(pattern, max_pattern_len, overflow_checks) ==
    IF max_pattern_len = Panic THEN Nothing
    ELSE IF ByteLen(pattern) > max_pattern_len
    THEN LET n == Sub(Sub(max_pattern_len, 4, overflow_checks), 2,
                      overflow_checks)
         IN IF n = Panic THEN Nothing
            ELSE Some(TakeChars(pattern, n) \o MarkerTruncated)
    ELSE Some(pattern \o MarkerWhole)

\* The result of a fetch_context_lines call.
ContextReturned(lines, lookup) ==
    [kind |-> "returned", lookup |-> lookup, lines |-> lines]
ContextPanicked(lookup) ==
    [kind |-> "panicked", lookup |-> lookup, lines |-> <<>>]

\* Lines 703-723: border, pattern line, border.
ContextBlock(tag, container_width, is_nvim, overflow_checks) ==
    LET border_line ==
            generate_border_line(container_width, is_nvim, overflow_checks)
        context_line ==
            PatternLine(tag.pattern, Sub(container_width, 4, overflow_checks),
                        overflow_checks)
    IN IF border_line = Nothing \/ context_line = Nothing
       THEN ContextPanicked("answered")
       ELSE ContextReturned(<<border_line[1], context_line[1],
                              border_line[1]>>, "answered")

\* Line 702: the match guard `tag.line_number < start`.
TagBeforeWindow(tag_line_number, start) == tag_line_number < start

\* Lines 662-731.  `ext` is the extension of the path (None: it has none);
\* `lookup` is what current_context_tag_async would do: its delay and its
\* answer.  The result records whether the lookup was called and answered.
fetch_context_lines(lines, highlight_lnum, start, container_width, ext, is_nvim, lookup, overflow_checks) ==
    IF Sub(highlight_lnum, 1, overflow_checks) = Panic
    THEN ContextPanicked("not_called")
    ELSE IF highlight_lnum \notin DOMAIN lines
    THEN ContextReturned(<<>>, "not_called")
    ELSE IF ext = None
    THEN ContextReturned(<<>>, "not_called")
    ELSE IF ext \in BLACK_LIST \/ is_comment(lines[highlight_lnum], ext)
    THEN ContextReturned(<<>>, "not_called")
    ELSE LET tag == context_tag_with_timeout(lookup)
             status == IF lookup.delay < TIMEOUT THEN "answered"
                       ELSE "timed_out"
         IN IF tag # Nothing /\ TagBeforeWindow(tag[1].line_number, start)
            THEN ContextBlock(tag[1], container_width, is_nvim,
                              overflow_checks)
            ELSE ContextReturned(<<>>, status)

\* The lines of a preview window: a statement and a line comment.
CodeLine == <<"l", "e", "t", " ", "x", ";">>
CommentLine == <<"/", "/", " ", "x">>
WindowLines == <<CodeLine, CommentLine>>

\* tag.trimmed_pattern(): short, long, and long with multi-byte letters.
Patterns ==
    {<<"f", "n">>,
     <<"f", "n", " ", "m", "a", "i", "n", "(", ")", " ", "{">>,
     <<"f", "n", " ", "CJK", "CJK", "E_ACUTE", "(", ")">>}

\* The window starts of the calls and the lines tags are found at.
ContextStarts == {0, 3}
TagLines == {2, 3, 4}

\* What the structural-context lookup would do.
Lookups ==
    [delay : LookupDelays,
     tag : {Nothing} \cup
           {Some(t) : t \in [line_number : TagLines, pattern : Patterns]}]

\* The extension of the previewed path.
Extensions == {None, "rs", "toml"}

ContainerWidths == 0 .. MaxWidth

\* No call of fetch_context_lines has been made yet.
NoContextCall ==
    [highlight_lnum |-> 0, start |-> 0, container_width |-> 0, ext |-> None,
     is_nvim |-> FALSE, lookup |-> [delay |-> 0, tag |-> Nothing],
     overflow_checks |-> FALSE,
     result |-> [kind |-> None, lookup |-> None, lines |-> <<>>]]

\* preview_file_at fetches the context lines of a window (lines 477-486),
\* once per behaviour: the function keeps no state.
FetchContextLines ==
    /\ cx = NoContextCall
    /\ \E highlight_lnum \in 0 .. Len(WindowLines) + 1,
          start \in ContextStarts, container_width \in ContainerWidths,
          ext \in Extensions, is_nvim \in BOOLEAN, lookup \in Lookups,
          overflow_checks \in BOOLEAN :
           cx' = [highlight_lnum |-> highlight_lnum, start |-> start,
                  container_width |-> container_width, ext |-> ext,
                  is_nvim |-> is_nvim, lookup |-> lookup,
                  overflow_checks |-> overflow_checks,
                  result |-> fetch_context_lines(WindowLines, highlight_lnum,
                                 start, container_width, ext, is_nvim, lookup,
                                 overflow_checks)]
    /\ UNCHANGED <<refreshVars, parsed, sb, previewVars>>

(***************************************************************************)
(* Preview orchestrator: CachedPreviewImpl::get_preview and its routines   *)
(*                                                                         *)
(* A line of a preview is a text; a path displays as its components.       *)
(***************************************************************************)
\* Lines 29-33: VimSyntaxInfo::default().
VimSyntaxInfo_default == [syntax |-> "", fname |-> <<>>]

\* Lines 36-41.
VimSyntaxInfo_syntax(syntax) == [syntax |-> syntax, fname |-> <<>>]

\* Lines 43-48.
VimSyntaxInfo_fname(fname) == [syntax |-> "", fname |-> fname]

\* Lines 50-52.
is_empty(vim_syntax_info) ==
    vim_syntax_info.syntax = "" /\ vim_syntax_info.fname = <<>>

\* Lines 56-76: Preview::default().
Preview_default ==
    [lines |-> <<>>, vim_syntax_info |-> VimSyntaxInfo_default,
     sublime_syntax_highlights |-> <<>>, tree_sitter_highlights |-> <<>>,
     hi_lnum |-> Nothing, scrollbar |-> Nothing]

\* Lines 79-84.
Preview_new(lines) == [Preview_default EXCEPT !.lines = lines]

\* Lines 86-97.
new_file_preview(lines, scrollbar, vim_syntax_info) ==
    [Preview_default EXCEPT !.lines = lines, !.scrollbar = scrollbar,
                            !.vim_syntax_info = vim_syntax_info]

\* Line 232: the number of lines a preview shows.
preview_height == 2

\* env.display_line_width and env.display_winheight of the session.
display_line_width == 8
display_winheight == 4

\* Lines 645-647.
max_line_width == 2 * display_line_width

\* The sessions: the configured highlight engine, the host (Vim, Neovim
\* before 0.9, Neovim 0.9), the provider, the border, the scrollbar and the
\* build.
SublimeOnVim ==
    [engine |-> "SublimeSyntax", is_nvim |-> FALSE, has_nvim_09 |-> FALSE,
     provider_id |-> "grep", cwd |-> <<"/", "repo">>,
     preview_border_enabled |-> FALSE, scrollbar_enabled |-> TRUE,
     overflow_checks |-> TRUE]
TreeSitterOnNvim09 ==
    [engine |-> "TreeSitter", is_nvim |-> TRUE, has_nvim_09 |-> TRUE,
     provider_id |-> "files", cwd |-> <<"/", "repo">>,
     preview_border_enabled |-> TRUE, scrollbar_enabled |-> TRUE,
     overflow_checks |-> FALSE]
VimSyntaxOnNvim08 ==
    [engine |-> "Vim", is_nvim |-> TRUE, has_nvim_09 |-> FALSE,
     provider_id |-> "tags", cwd |-> <<"/", "repo">>,
     preview_border_enabled |-> FALSE, scrollbar_enabled |-> FALSE,
     overflow_checks |-> TRUE]
TreeSitterOnVim ==
    [engine |-> "TreeSitter", is_nvim |-> FALSE, has_nvim_09 |-> FALSE,
     provider_id |-> "tags", cwd |-> <<"/", "repo">>,
     preview_border_enabled |-> TRUE, scrollbar_enabled |-> FALSE,
     overflow_checks |-> FALSE]
Envs == {SublimeOnVim, TreeSitterOnNvim09, VimSyntaxOnNvim08, TreeSitterOnVim}

\* Env::should_add_scrollbar(n): the session shows scrollbars.
should_add_scrollbar(e, n) == e.scrollbar_enabled

\* Lines 216-227.
should_truncate_cwd_relative(provider_id) ==
    provider_id \in {"files", "git_files", "grep", "live_grep",
                     "coc_location", "dumb_jump", "proj_tags"}

\* The file the previews read: five lines, the last one a comment.
SourcePath == <<"/", "repo", "src", "a.rs">>
FileContents == <<CodeLine, CodeLine, CodeLine, CodeLine, CommentLine>>

\* The targets the calls ask for, one of each variant.
DirectoryTarget == Directory(<<"/", "repo", "src">>)
FileTarget == File(SourcePath)
LineInFileTarget == LineInFile(SourcePath, 4)
GitCommitTarget == GitCommit("abc123")
HelpTagsTarget == HelpTags("subject", "doc.txt", "/rtp")
PreviewTargets ==
    {DirectoryTarget, FileTarget, LineInFileTarget, GitCommitTarget,
     HelpTagsTarget}

\* preview_manager.cached_preview(target): the Preview kept for the target.
cached_preview(cache, target) == cache[target]

\* preview_manager.insert_preview(target, preview).
insert_preview(cache, target, preview) ==
    [cache EXCEPT ![target] = Some(preview)]

\* What a preview routine did: it returned a Preview, returned an error or
\* panicked; `effects` are the primitives it called, `highlights` the
\* variant fetch_syntax_highlights answered with (None: not asked).
RoutineOk(preview, effects, highlights) ==
    [kind |-> "Ok", preview |-> Some(preview), message |-> "",
     effects |-> effects, highlights |-> highlights]
RoutineErr(message, effects) ==
    [kind |-> "Err", preview |-> Nothing, message |-> message,
     effects |-> effects, highlights |-> None]
RoutinePanic(effects) ==
    [kind |-> "Panic", preview |-> Nothing, message |-> "",
     effects |-> effects, highlights |-> None]

\* The first n lines.
TakeLines(lines, n) == SubSeq(lines, 1, Min(n, Len(lines)))

\* fname.replacen(cwd, ".", 1) on a path below cwd.
CwdRelative(path, cwd) ==
    IF Len(path) >= Len(cwd) /\ SubSeq(path, 1, Len(cwd)) = cwd
    THEN <<".">> \o SubSeq(path, Len(cwd) + 1, Len(path))
    ELSE path

\* paths::truncate_absolute_path: the path cut on the left to max_len.
truncate_absolute_path(path, max_len) ==
    IF Len(path) <= max_len THEN path
    ELSE <<"...">> \o SubSeq(path, Len(path) - Max(max_len, 1) + 1, Len(path))

\* utils::display_width(lnum): the number of digits.
RECURSIVE display_width(_)
display_width(n) == IF n < 10 THEN 1 ELSE 1 + display_width(n \div 10)

\* The decimal text of a small line number.
LnumText(n) == <<":", <<"0", "1", "2", "3", "4", "5", "6", "7", "8", "9">>[n + 1]>>

\* Lines 299-310: `git show`, cut to preview_height lines, syntax "diff".
GitShowLines == <<<<"commit abc123">>, <<"Author">>, <<"diff">>>>
preview_commits(rev, exec_ok) ==
    IF ~exec_ok THEN RoutineErr("exec_cmd failed", {"exec_cmd"})
    ELSE RoutineOk([Preview_new(TakeLines(GitShowLines, preview_height))
                        EXCEPT !.vim_syntax_info.syntax = "diff"],
                   {"exec_cmd"}, None)

\* Lines 312-333.
preview_help_subject(doc_filename, help_lines) ==
    IF help_lines # Nothing
    THEN RoutineOk([Preview_default EXCEPT
                        !.lines = <<<<doc_filename>>>> \o help_lines[1],
                        !.hi_lnum = Some(1),
                        !.vim_syntax_info = VimSyntaxInfo_syntax("help")],
                   {"get_help_lines"}, None)
    ELSE RoutineOk(Preview_new(<<<<"Can not find the preview help lines">>>>),
                   {"get_help_lines"}, None)

\* Lines 335-352; `entries` is what read_dir_entries answers, Nothing for
\* an error.
preview_directory(path, entries) ==
    IF entries = Nothing
    THEN RoutineErr("read_dir_entries failed", {"read_dir_entries"})
    ELSE LET lines == IF entries[1] = <<>> THEN <<<<"<Empty directory>">>>>
                      ELSE entries[1]
             title == path \o <<":">>
         IN RoutineOk(Preview_new(<<title>> \o lines), {"read_dir_entries"},
                      None)

\* Lines 428-448: the syntax hint of a whole-file preview.
FileSyntaxInfo(size_is_zero, syntax, fname) ==
    IF size_is_zero THEN VimSyntaxInfo_fname(fname)
    ELSE IF syntax # Nothing THEN VimSyntaxInfo_syntax(syntax[1])
    ELSE VimSyntaxInfo_fname(fname)

\* Lines 354-449.  `fs` is the state of the file system during the call:
\* how far the reads get, whether the file is empty and what preview_syntax
\* answers.
preview_file(path, e, fs) ==
    IF fs.stage = "not_a_file"
    THEN RoutineErr("Failed to preview as it is not a file", {"is_file"})
    ELSE IF fs.stage = "read_failed"
    THEN RoutineErr("read failed", {"is_file", "read_file"})
    ELSE LET contents == IF fs.empty THEN <<>> ELSE FileContents
             truncated_title == e.is_nvim /\ ~e.has_nvim_09
             title == IF truncated_title
                      THEN truncate_absolute_path(path, display_line_width - 1)
                      ELSE CwdRelative(path, e.cwd)
             fname == path
             lines == <<title>> \o TakeLines(contents, preview_height)
             total == Len(contents)
             end == Len(lines)
             scrollbar == FileScrollbar(end, total, display_winheight,
                                        e.preview_border_enabled,
                                        should_add_scrollbar(e, end))
         IN IF fs.stage = "count_lines_failed"
            THEN RoutineErr("open failed",
                            {"is_file", "read_file", "count_lines"})
            ELSE IF fs.stage = "metadata_failed"
            THEN RoutineErr("metadata failed",
                            {"is_file", "read_file", "count_lines",
                             "metadata"})
            ELSE RoutineOk(
                    new_file_preview(
                        IF fs.empty THEN Append(lines, <<"<Empty file>">>)
                        ELSE lines,
                        scrollbar,
                        FileSyntaxInfo(fs.empty, fs.preview_syntax, fname)),
                    {"is_file", "read_file", "count_lines", "metadata"},
                    None)

\* Lines 733-737.
Sublime(v) == [kind |-> "Sublime", v |-> v]
TreeSitter(v) == [kind |-> "TreeSitter", v |-> v]
Neither == [kind |-> "Neither", v |-> <<>>]

\* sublime_syntax_by_extension and tree_sitter::Language::try_from_extension:
\* the extensions a grammar exists for.
sublime_syntax_by_extension(ext) == IF ext = "rs" THEN Some("Rust") ELSE Nothing
try_from_extension(ext) == IF ext = "rs" THEN Some("Rust") ELSE Nothing

\* Lines 741-838.  `raw` are the line numbers, counted from the first line
\* of the window, the engine found spans on; `ts` is how far the
\* tree-sitter arm gets ("read_failed", "highlight_failed", "ok").
fetch_syntax_highlights(engine, ext, line_number_offset, context_lines_offset, raw, ts) ==
    CASE engine = "SublimeSyntax" ->
            IF ext # None /\ sublime_syntax_by_extension(ext) # Nothing
            THEN Sublime([i \in DOMAIN raw |->
                            <<raw[i] + line_number_offset, "span">>])
            ELSE Neither
      [] engine = "TreeSitter" ->
            IF ext # None /\ try_from_extension(ext) # Nothing /\ ts = "ok"
            THEN TreeSitter([i \in DOMAIN raw |->
                                <<raw[i] + 1 + context_lines_offset, "span">>])
            ELSE Neither
      [] OTHER -> Neither

\* A hint that names the syntax and the file at once.
SyntaxAndFname(syntax, fname) ==
    IF syntax # Nothing THEN [syntax |-> syntax[1], fname |-> fname]
    ELSE VimSyntaxInfo_fname(fname)

\* Lines 551-557: the syntax hint when no engine answered.
FallbackSyntaxInfo(syntax, fname) ==
    IF syntax # Nothing THEN VimSyntaxInfo_syntax(syntax[1])
    ELSE VimSyntaxInfo_fname(fname)

\* The spans attached to both highlight fields.
AttachToBoth(preview, highlights, syntax, fname) ==
    IF highlights.kind = "Neither"
    THEN [preview EXCEPT
            !.vim_syntax_info = FallbackSyntaxInfo(syntax, fname)]
    ELSE [preview EXCEPT !.sublime_syntax_highlights = highlights.v,
                         !.tree_sitter_highlights = highlights.v]

\* Lines 544-558: one highlight field, or the syntax hint.
AttachHighlights(preview, highlights, syntax, fname) ==
    CASE highlights.kind = "Sublime" ->
            [preview EXCEPT !.sublime_syntax_highlights = highlights.v]
      [] highlights.kind = "TreeSitter" ->
            [preview EXCEPT !.tree_sitter_highlights = highlights.v]
      [] OTHER ->
            [preview EXCEPT
                !.vim_syntax_info = FallbackSyntaxInfo(syntax, fname)]

\* Lines 456-467: Some(header), or Nothing when the subtraction panics.
truncated_preview_header(fname, lnum, container_width, e) ==
    LET support_float_title == ~e.is_nvim \/ e.has_nvim_09
    IN IF support_float_title /\ should_truncate_cwd_relative(e.provider_id)
       THEN Some(CwdRelative(fname, e.cwd) \o LnumText(lnum))
       ELSE LET max_fname_len ==
                    Sub(Sub(container_width, 1, e.overflow_checks),
                        display_width(lnum), e.overflow_checks)
            IN IF max_fname_len = Panic THEN Nothing
               ELSE Some(truncate_absolute_path(fname, max_fname_len)
                         \o LnumText(lnum))

\* previewer::get_file_preview: the window of preview_height lines around
\* line lnum of the file.
get_file_preview(contents, lnum, height) ==
    LET mid == height \div 2
        total == Len(contents)
        start == IF lnum > mid THEN lnum - mid ELSE 0
        end == Min(IF lnum > mid THEN lnum + mid ELSE height, total)
    IN [start |-> start, end |-> end, total |-> total,
        highlight_lnum |-> IF lnum > mid THEN mid ELSE lnum,
        lines |-> SubSeq(contents, start + 1, end)]

\* previewer::truncate_lines: every line cut to max_line_width.
truncate_lines(lines, width) ==
    [i \in DOMAIN lines |-> TakeChars(lines[i], width)]

\* The extension of a path, None when it has none.
Extension(path) ==
    IF path = SourcePath THEN "rs" ELSE None

\* Line 571: the line that reports a failed window read.
ErrorLine(path) ==
    <<"Error while previewing ">> \o path \o <<": ", "read failed">>

\* A highlight index the context lines do not shift.
UnshiftedHighlight(highlight_lnum, context_lines) == highlight_lnum

\* Line 487: the highlight index moves down by the context lines.
ShiftedHighlight(highlight_lnum, context_lines) ==
    highlight_lnum + Len(context_lines)

\* Lines 451-580.  `io` is what the outside answers during the call: the
\* window read, the structural-context lookup, preview_syntax and the
\* highlight engine.
preview_file_at(path, lnum, container_width, e, io) ==
    LET fname == path
        header_line == truncated_preview_header(fname, lnum, container_width,
                                                e)
    IN IF ~io.window_ok
       THEN IF header_line = Nothing
            THEN RoutinePanic({"get_file_preview", "tracing::error"})
            ELSE RoutineOk(
                    [Preview_default EXCEPT
                        !.lines = <<header_line[1], ErrorLine(path)>>,
                        !.vim_syntax_info = VimSyntaxInfo_fname(fname)],
                    {"get_file_preview", "tracing::error"}, None)
       ELSE LET fp == get_file_preview(FileContents, lnum, preview_height)
                ctx == fetch_context_lines(fp.lines, fp.highlight_lnum,
                           fp.start, container_width, Extension(path),
                           e.is_nvim, io.lookup, e.overflow_checks)
                context_lines == ctx.lines
                highlight_lnum == ShiftedHighlight(fp.highlight_lnum,
                                                   context_lines)
                line_number_offset == Len(context_lines) + 1 + 1
                highlights ==
                    fetch_syntax_highlights(e.engine, Extension(path),
                        line_number_offset, Len(context_lines), io.raw,
                        io.ts)
                effects ==
                    {"get_file_preview"}
                    \cup (IF ctx.lookup = "not_called" THEN {}
                          ELSE {"current_context_tag_async"})
                    \cup (IF e.engine = "TreeSitter" THEN {"read_file"}
                          ELSE {})
                lines == <<header_line[1]>> \o context_lines
                         \o truncate_lines(fp.lines, max_line_width)
                scrollbar ==
                    FileAtScrollbar(fp.start, fp.end, fp.total,
                        context_lines = <<>>, display_winheight,
                        e.preview_border_enabled,
                        should_add_scrollbar(e, fp.total))
            IN IF ctx.kind = "panicked" \/ header_line = Nothing
               THEN RoutinePanic(effects)
               ELSE RoutineOk(
                        AttachHighlights(
                            [Preview_default EXCEPT
                                !.lines = lines,
                                !.hi_lnum = Some(highlight_lnum),
                                !.scrollbar = scrollbar],
                            highlights, io.preview_syntax, fname),
                        effects, highlights.kind)

\* What the file system answers to preview_file; a read that fails leaves
\* the later answers unused.
FileStates ==
    {fs \in [stage : {"not_a_file", "read_failed", "count_lines_failed",
                      "metadata_failed", "ok"},
             empty : BOOLEAN,
             preview_syntax : {Nothing, Some("rust")}] :
        fs.stage # "ok" => (~fs.empty /\ fs.preview_syntax = Nothing)}

\* The lookups of the previews: one that times out and one that answers
\* with a tag above the window.
PreviewLookups ==
    [delay : LookupDelays,
     tag : {Some([line_number |-> 2, pattern |-> <<"f", "n">>])}]

\* What the outside answers to preview_file_at; a window read that fails
\* leaves the later answers unused, and so does an engine that fails.
FileAtStates ==
    {io \in [window_ok : BOOLEAN, lookup : PreviewLookups,
             preview_syntax : {Nothing, Some("rust")},
             raw : {<<>>, <<1>>},
             ts : {"read_failed", "ok"}] :
        /\ ~io.window_ok =>
            /\ io.lookup.delay = 100
            /\ io.preview_syntax = Nothing
            /\ io.raw = <<>>
            /\ io.ts = "ok"
        /\ io.ts # "ok" => io.raw = <<>>
        /\ io.raw # <<>> => io.preview_syntax = Nothing}

\* What read_dir_entries, exec_cmd and get_help_lines answer.
DirectoryStates == {Nothing, Some(<<>>), Some(<<<<"a.rs">>>>)}
ExecStates == BOOLEAN
HelpStates == {Nothing, Some(<<<<"help text">>>>)}

\* What preview_winwidth answers: an error, or a width.
WinWidths == {Nothing, Some(1), Some(MaxWidth)}

\* A lookup that never finds the target.
CacheNeverHit(cached) == FALSE

\* Lines 268-274: the cache answered with a Preview.
CacheHit(cached) == cached # Nothing

\* A Preview inserted twice.
InsertsTwice(target, routine) ==
    IF routine.kind = "Ok" THEN <<target, target>> ELSE <<>>

\* Lines 276-294: the insert_preview calls of a miss.  The `?` of lines
\* 277, 278, 280 and 284 returns the error before line 292 is reached, and a
\* panic unwinds past it.
InsertsOf(target, routine) ==
    IF routine.kind = "Ok" THEN <<target>> ELSE <<>>

\* The record of a finished get_preview call: the cache's answer, what the
\* call returned and did, and the targets it passed to insert_preview.
FinishedCall(target, cached, routine, inserted) ==
    [target |-> Some(target), cached |-> cached, hit |-> CacheHit(cached),
     result |-> routine, inserted |-> inserted]

\* No get_preview call has finished yet.
NoCall ==
    [target |-> Nothing, cached |-> Nothing, hit |-> FALSE,
     result |-> [kind |-> None, preview |-> Nothing, message |-> "",
                 effects |-> {}, highlights |-> None],
     inserted |-> <<>>]

\* Lines 292-296: insert the Preview of a miss and return it.
FinishMiss(target, cached, routine) ==
    /\ call' = FinishedCall(target, cached, routine,
                            InsertsOf(target, routine))
    /\ preview_cache' =
        IF InsertsOf(target, routine) = <<>> THEN preview_cache
        ELSE insert_preview(preview_cache, target, routine.preview[1])

\* Lines 267-297 up to the first suspension: a hit returns the cached
\* Preview; a miss runs the routine of the variant, except for LineInFile,
\* which suspends on preview_winwidth (line 280).
get_preview(target) ==
    LET cached == cached_preview(preview_cache, target)
    IN IF CacheHit(cached)
       THEN /\ call' = FinishedCall(target, cached,
                                    RoutineOk(cached[1], {}, None), <<>>)
            /\ UNCHANGED <<preview_cache, pending>>
       ELSE CASE target.variant = "Directory" ->
                    /\ \E entries \in DirectoryStates :
                        FinishMiss(target, cached,
                                   preview_directory(target.path, entries))
                    /\ UNCHANGED pending
              [] target.variant = "File" ->
                    /\ \E fs \in FileStates :
                        FinishMiss(target, cached, preview_file(target.path, env, fs))
                    /\ UNCHANGED pending
              [] target.variant = "GitCommit" ->
                    /\ \E exec_ok \in ExecStates :
                        FinishMiss(target, cached, preview_commits(target.rev, exec_ok))
                    /\ UNCHANGED pending
              [] target.variant = "HelpTags" ->
                    /\ \E help_lines \in HelpStates :
                        FinishMiss(target, cached,
                                   preview_help_subject(target.doc_filename,
                                                        help_lines))
                    /\ UNCHANGED pending
              [] OTHER ->
                    /\ Len(pending) < MaxCalls
                    /\ pending' = Append(pending, [target |-> target,
                                                   cached |-> cached])
                    /\ UNCHANGED <<preview_cache, call>>

GetPreview ==
    /\ \E target \in PreviewTargets : get_preview(target)
    /\ UNCHANGED <<refreshVars, parsed, sb, cx, env>>

\* Lines 280-296: preview_winwidth answers a suspended call; an error is
\* returned by the `?`, a width goes to preview_file_at, whose Preview is
\* inserted and returned.  The lookup inside fetch_context_lines suspends
\* once more; it touches no state of the session, so the rest of the call
\* is one step.
GetPreviewResume(i) ==
    /\ i \in DOMAIN pending
    /\ LET target == pending[i].target
       IN \E width \in WinWidths :
            IF width = Nothing
            THEN FinishMiss(target, pending[i].cached,
                            RoutineErr("preview_winwidth failed",
                                       {"preview_winwidth"}))
            ELSE \E io \in FileAtStates :
                    LET r == preview_file_at(target.path, target.line_number,
                                             width[1], env, io)
                    IN FinishMiss(target, pending[i].cached,
                                  [r EXCEPT !.effects =
                                                @ \cup {"preview_winwidth"}])
    /\ pending' = [j \in 1 .. Len(pending) - 1 |->
                    IF j < i THEN pending[j] ELSE pending[j + 1]]
    /\ UNCHANGED <<refreshVars, parsed, sb, cx, env>>

(***************************************************************************)
(* Stale-cache guard: CachedPreviewImpl::try_refresh_cache                 *)
(***************************************************************************)
\* The provider ids the guard is called under.
GuardProviderIds == {"grep", "live_grep", "files"}

\* The observed line text retained at parse time (None: nothing retained) and
\* the latest line content it is compared with.
CacheLines == {None, "let x = 1;"}
LatestLines == {"let x = 1;", "let x = 2;"}

\* tools::rg::rg_shell_command(&cwd): the shell command that regenerates the
\* grep index of a working directory.
rg_shell_command(cwd) == <<"rg", cwd>>

\* utils::calculate_hash: deterministic, modelled without collisions.
calculate_hash(shell_cmd) == <<"hash", shell_cmd>>

\* job::reserve(job_id): atomic check-and-set; TRUE iff the id was free.
reserve(registry, job_id) ==
    [ok |-> job_id \notin registry, registry |-> registry \cup {job_id}]

\* job::unreserve(job_id).
unreserve(registry, job_id) == registry \ {job_id}

\* A guard that lets the whole live-grep family through.
OutdatedForGrepFamily(provider_id, cache_line, latest_line) ==
    /\ provider_id \in {"grep", "live_grep"}
    /\ cache_line # None
    /\ cache_line # latest_line

\* The guard of lines 585-587: provider grep, an observed line retained,
\* and it differs from the latest line content.
CacheIsOutdated(provider_id, cache_line, latest_line) ==
    /\ provider_id = "grep"
    /\ cache_line # None
    /\ cache_line # latest_line

SpawnAlways(reserved_ok) == TRUE

\* Line 593: the task is spawned only in the branch where reserve succeeded.
SpawnIfReserved(reserved_ok) == reserved_ok

\* A freshly spawned closure: about to call rg::refresh_cache.
NewTask(job_id, cwd) ==
    [job_id |-> job_id, cwd |-> cwd, pc |-> "refresh_cache",
     saw_terminated |-> "not_loaded", notified |-> FALSE, steps |-> <<>>]

try_refresh_cache(provider_id, cache_line, latest_line, cwd) ==
    /\ LET job_id == calculate_hash(rg_shell_command(cwd))
           r == reserve(job_registry, job_id)
       IN IF ~CacheIsOutdated(provider_id, cache_line, latest_line)
          THEN /\ last_refresh' = [provider_id |-> provider_id,
                                   cache_line |-> cache_line,
                                   latest_line |-> latest_line,
                                   job_id |-> None, reserve_called |-> FALSE,
                                   reserved |-> FALSE, spawned |-> 0,
                                   error |-> None]
               /\ UNCHANGED <<job_registry, tasks>>
          ELSE /\ job_registry' = r.registry
               /\ tasks' = IF SpawnIfReserved(r.ok)
                           THEN Append(tasks, NewTask(job_id, cwd))
                           ELSE tasks
               /\ last_refresh' = [provider_id |-> provider_id,
                                   cache_line |-> cache_line,
                                   latest_line |-> latest_line,
                                   job_id |-> job_id, reserve_called |-> TRUE,
                                   reserved |-> r.ok,
                                   spawned |-> Len(tasks') - Len(tasks),
                                   error |-> None]
    /\ Len(tasks') <= MaxTasks
    /\ UNCHANGED <<provider_source, terminated, parsed, sb, cx, previewVars>>

TryRefreshCache ==
    \E provider_id \in GuardProviderIds, cache_line \in CacheLines,
       latest_line \in LatestLines, cwd \in Cwds :
        try_refresh_cache(provider_id, cache_line, latest_line, cwd)

\* Lines 599-603: rg::refresh_cache(&ctx.cwd) returned Ok(digest).
TaskRefreshOk(t) ==
    /\ tasks[t].pc = "refresh_cache"
    /\ tasks' = [tasks EXCEPT ![t].pc = "set_provider_source"]
    /\ UNCHANGED <<job_registry, provider_source, terminated, last_refresh, parsed, sb, cx, previewVars>>

\* Lines 604-607: the Err arm logs and returns; the registry is not touched.
RegistryAfterRefreshError(registry, job_id) == registry

\* Lines 604-607: rg::refresh_cache(&ctx.cwd) returned Err(e).
TaskRefreshErr(t) ==
    /\ tasks[t].pc = "refresh_cache"
    /\ tasks' = [tasks EXCEPT ![t].pc = "returned_on_error"]
    /\ job_registry' = RegistryAfterRefreshError(job_registry, tasks[t].job_id)
    /\ UNCHANGED <<provider_source, terminated, last_refresh, parsed, sb, cx, previewVars>>

\* Lines 609-614: ctx.set_provider_source(ProviderSource::CachedFile{..}).
TaskSetProviderSource(t) ==
    /\ tasks[t].pc = "set_provider_source"
    /\ provider_source' = [kind |-> "CachedFile", cwd |-> tasks[t].cwd,
                           refreshed |-> TRUE]
    /\ tasks' = [tasks EXCEPT ![t].pc = "unreserve",
                              ![t].steps = Append(@, "set_provider_source")]
    /\ UNCHANGED <<job_registry, terminated, last_refresh, parsed, sb, cx, previewVars>>

\* Line 615: job::unreserve(job_id).
TaskUnreserve(t) ==
    /\ tasks[t].pc = "unreserve"
    /\ job_registry' = unreserve(job_registry, tasks[t].job_id)
    /\ tasks' = [tasks EXCEPT ![t].pc = "load_terminated",
                              ![t].steps = Append(@, "unreserve")]
    /\ UNCHANGED <<provider_source, terminated, last_refresh, parsed, sb, cx, previewVars>>

\* A notification emitted whatever the flag was.
NotifyAlways(flag) == "echo_info"

\* Lines 617-619: the notification is emitted if the flag read false.
NotifyUnlessTerminated(flag) == IF flag THEN "done" ELSE "echo_info"

\* Line 617: ctx.terminated.load(SeqCst).
TaskLoadTerminated(t) ==
    /\ tasks[t].pc = "load_terminated"
    /\ tasks' = [tasks EXCEPT ![t].saw_terminated =
                                  IF terminated THEN "true" ELSE "false",
                              ![t].pc = NotifyUnlessTerminated(terminated),
                              ![t].steps = Append(@, "load_terminated")]
    /\ UNCHANGED <<job_registry, provider_source, terminated, last_refresh, parsed, sb, cx, previewVars>>

\* Line 618: ctx.vim.echo_info("Out-dated cache refreshed").
TaskEchoInfo(t) ==
    /\ tasks[t].pc = "echo_info"
    /\ tasks' = [tasks EXCEPT ![t].notified = TRUE, ![t].pc = "done",
                              ![t].steps = Append(@, "echo_info")]
    /\ UNCHANGED <<job_registry, provider_source, terminated, last_refresh, parsed, sb, cx, previewVars>>

\* The session ends: the terminated flag is set by the provider's owner.
Terminate ==
    /\ ~terminated
    /\ terminated' = TRUE
    /\ UNCHANGED <<job_registry, tasks, provider_source, last_refresh, parsed, sb, cx, previewVars>>

\* No call of try_refresh_cache has been made yet.
NoRefreshCall ==
    [provider_id |-> None, cache_line |-> None, latest_line |-> None,
     job_id |-> None, reserve_called |-> FALSE, reserved |-> FALSE,
     spawned |-> 0, error |-> None]

\* Nothing has been called, cached, reserved or spawned.
Idle ==
    /\ job_registry = {}
    /\ tasks = <<>>
    /\ provider_source = [kind |-> "Initial"]
    /\ terminated = FALSE
    /\ last_refresh = NoRefreshCall
    /\ parsed = NoParse
    /\ sb = NoScrollbarCall
    /\ cx = NoContextCall
    /\ preview_cache = [target \in PreviewTargets |-> Nothing]
    /\ pending = <<>>
    /\ call = NoCall

InitRefresh == Idle /\ env = SublimeOnVim

NextRefresh ==
    \/ TryRefreshCache
    \/ \E t \in DOMAIN tasks : TaskRefreshOk(t)
    \/ \E t \in DOMAIN tasks : TaskRefreshErr(t)
    \/ \E t \in DOMAIN tasks : TaskSetProviderSource(t)
    \/ \E t \in DOMAIN tasks : TaskUnreserve(t)
    \/ \E t \in DOMAIN tasks : TaskLoadTerminated(t)
    \/ \E t \in DOMAIN tasks : TaskEchoInfo(t)
    \/ Terminate

SpecRefresh == InitRefresh /\ [][NextRefresh]_vars

InitParse == InitRefresh

NextParse == ParsePreviewTarget

SpecParse == InitParse /\ [][NextParse]_vars

\* An error message names a text when the text is one of the pieces it is
\* formatted from.
Names(message, text) == \E i \in DOMAIN message : message[i] = text

InitScrollbar == InitRefresh

NextScrollbar ==
    \/ PreviewFileScrollbar
    \/ PreviewFileAtScrollbar

SpecScrollbar == InitScrollbar /\ [][NextScrollbar]_vars

InitContext == InitRefresh

NextContext == FetchContextLines

SpecContext == InitContext /\ [][NextContext]_vars

Init == Idle /\ env \in Envs

Next ==
    \/ GetPreview
    \/ \E i \in DOMAIN pending : GetPreviewResume(i)

Spec == Init /\ [][Next]_vars

(***************************************************************************)
(* Claims about the preview target resolver (specification SpecParse)      *)
(***************************************************************************)

TaskFinished(t) == tasks[t].pc \in {"returned_on_error", "done"}

\* The tasks spawned for a job id.
TasksOf(job_id) == {t \in DOMAIN tasks : tasks[t].job_id = job_id}

JobIds == {calculate_hash(rg_shell_command(cwd)) : cwd \in Cwds}

\* A task is between its spawn and the end of its closure.
TaskInFlight(t) == ~TaskFinished(t)

\* A task is regenerating or publishing the index: it has not yet reached
\* the statement after job::unreserve, nor returned.
TaskRefreshing(t) ==
    tasks[t].pc \in {"refresh_cache", "set_provider_source", "unreserve"}

\* The latest try_refresh_cache call found its job id already reserved.
LastCallDeduplicated ==
    last_refresh.reserve_called /\ ~last_refresh.reserved

(***************************************************************************)
(* Claims about the stale-cache guard (specification SpecRefresh)          *)
(***************************************************************************)

\* C1: once every task spawned for a job id has finished (regeneration
\* succeeded or failed), the job id is no longer reserved, so that a later
\* refresh with that id can reserve it again.
C1_ReservationReleasedOnEveryExit ==
    \A j \in JobIds :
        (TasksOf(j) # {} /\ \A t \in TasksOf(j) : TaskFinished(t))
            => j \notin job_registry

\* C2 as stated: at most one background task per job id is in flight (spawned
\* and not yet finished), and a caller whose reserve attempt fails spawns no
\* task and reports no error.
C2_AtMostOneTaskInFlight ==
    /\ \A j \in JobIds :
           Cardinality({t \in TasksOf(j) : TaskInFlight(t)}) <= 1
    /\ LastCallDeduplicated =>
           last_refresh.spawned = 0 /\ last_refresh.error = None

\* C2 amended: at most one background task per job id is regenerating or
\* publishing the index (between its spawn and its job::unreserve), and a
\* caller whose reserve attempt fails spawns no task and reports no error.
C2_AtMostOneTaskRefreshing ==
    /\ \A j \in JobIds :
           Cardinality({t \in TasksOf(j) : TaskRefreshing(t)}) <= 1
    /\ LastCallDeduplicated =>
           last_refresh.spawned = 0 /\ last_refresh.error = None

\* C2 witness: a call was deduplicated while the task holding its job id is
\* still regenerating the index, and a task of another call of the same id
\* has already released it.
C2_Witness ==
    /\ LastCallDeduplicated
    /\ \E t \in TasksOf(last_refresh.job_id) : TaskRefreshing(t)
    /\ \E t \in TasksOf(last_refresh.job_id) :
           tasks[t].pc \in {"load_terminated", "echo_info", "done"}

\* The call recorded in a try_refresh_cache record is outside the guard:
\* another provider id, no observed text, or text equal to the latest line.
OutsideGuard(refresh) ==
    \/ refresh.provider_id # "grep"
    \/ refresh.cache_line = None
    \/ refresh.cache_line = refresh.latest_line

\* What a try_refresh_cache record says of its call; a step that changes it
\* is a call.
CallRecord(refresh) ==
    <<refresh.provider_id, refresh.cache_line, refresh.latest_line,
      refresh.reserve_called, refresh.reserved, refresh.spawned>>

\* C13: a try_refresh_cache call for another provider than grep, or without
\* a retained observed line, or with an observed line equal to the latest
\* one, attempts no reservation, spawns no task and leaves the job registry
\* and the provider-source descriptor unchanged.
C13_GuardFrame ==
    [][(CallRecord(last_refresh') # CallRecord(last_refresh)
        /\ OutsideGuard(last_refresh')) =>
            /\ ~last_refresh'.reserve_called
            /\ last_refresh'.spawned = 0
            /\ tasks' = tasks
            /\ job_registry' = job_registry
            /\ provider_source' = provider_source]_vars

\* A live_grep call with an observed line that differs from the latest one
\* reserved nothing, while a task of an earlier grep call holds its job id.
C13_Witness ==
    /\ last_refresh.provider_id = "live_grep"
    /\ last_refresh.cache_line # None
    /\ last_refresh.cache_line # last_refresh.latest_line
    /\ ~last_refresh.reserve_called
    /\ last_refresh.spawned = 0
    /\ job_registry # {}
    /\ \E t \in DOMAIN tasks : TaskRefreshing(t)

\* The steps of a task whose regeneration succeeded, in source order.
StepsInOrder ==
    <<"set_provider_source", "unreserve", "load_terminated", "echo_info">>

\* The task's regeneration succeeded and its closure has ended.
TaskDoneAfterRefresh(t) == tasks[t].pc = "done"

\* C12: after a successful regeneration a task publishes the descriptor,
\* then releases the reservation, then reads the terminated flag, and only
\* then notifies: what it has done so far is always a prefix of that
\* order.  It notifies only if the flag read false, so a task that read
\* true has not notified; and a task whose closure has ended has published
\* and released whatever the flag was.
C12_PublishReleaseReadThenNotify ==
    \A t \in DOMAIN tasks :
        /\ Len(tasks[t].steps) <= Len(StepsInOrder)
        /\ tasks[t].steps = SubSeq(StepsInOrder, 1, Len(tasks[t].steps))
        /\ tasks[t].notified <=> Len(tasks[t].steps) = 4
        /\ tasks[t].notified => tasks[t].saw_terminated = "false"
        /\ tasks[t].saw_terminated = "true" => ~tasks[t].notified
        /\ tasks[t].saw_terminated # "not_loaded" <=> Len(tasks[t].steps) >= 3
        /\ TaskDoneAfterRefresh(t) =>
            /\ Len(tasks[t].steps) >= 3
            /\ tasks[t].saw_terminated = "true" => Len(tasks[t].steps) = 3

\* One task read the flag as true and ended after publishing and releasing,
\* without a notification; the descriptor it published is in place and its
\* job id is free.
C12_Witness ==
    \E t \in DOMAIN tasks :
        /\ TaskDoneAfterRefresh(t)
        /\ tasks[t].saw_terminated = "true"
        /\ tasks[t].steps =
            <<"set_provider_source", "unreserve", "load_terminated">>
        /\ ~tasks[t].notified
        /\ provider_source.kind = "CachedFile"
        /\ tasks[t].job_id \notin job_registry

(***************************************************************************)
(* Claims about the scrollbar geometry (specification SpecScrollbar)       *)
(***************************************************************************)
VisibleTimesHeight == sb.visible_rows * sb.window_height

C16_ScrollbarFitsWindow ==
    (/\ sb.scrollbar # Nothing
     /\ sb.total_rows > 0
     /\ sb.start + sb.visible_rows <= sb.total_rows) =>
        sb.scrollbar[1][1] + sb.scrollbar[1][2] <= sb.window_height

\* C16 witness: with the host border and start moved back from 3 to 0,
\* preview_file_at shows rows 0..5 of 5 in a window of 4 rows: the thumb
\* fills the window, is shortened to 3 rows and starts at row 1.
C16_Witness ==
    /\ sb.routine = "preview_file_at"
    /\ sb.border
    /\ sb.start = 0 /\ sb.visible_rows = 5 /\ sb.total_rows = 5
    /\ sb.window_height = 4
    /\ sb.scrollbar = Some(<<1, 3>>)

(***************************************************************************)
(* Claims about the context-line provider (specification SpecContext)      *)
(***************************************************************************)
\* A call of fetch_context_lines has returned.
ContextCallReturned == cx.result.kind = "returned"

\* The lookup of the call was made and answered within TIMEOUT with a tag
\* whose line_number is strictly less than the window start.
LookupAnsweredWithTagBeforeWindow ==
    /\ cx.result.lookup = "answered"
    /\ cx.lookup.tag # Nothing
    /\ cx.lookup.tag[1].line_number < cx.start

\* The extension of the call is not deny-listed and its highlighted line is
\* not a comment.
ContextNotSkipped ==
    /\ cx.ext \notin BLACK_LIST
    /\ cx.highlight_lnum \in DOMAIN WindowLines
    /\ ~is_comment(WindowLines[cx.highlight_lnum], cx.ext)

\* C10: every fetch_context_lines call returns zero or exactly three lines,
\* and three exactly when the extension is not deny-listed, the highlighted
\* line is not a comment and the lookup answers within the 300ms timeout
\* with a tag whose line_number is strictly less than the window start; a
\* lookup that times out ends in a return of zero lines, as when no tag is
\* found.
C10_ZeroOrThreeContextLines ==
    cx # NoContextCall =>
        /\ ContextCallReturned
        /\ Len(cx.result.lines) \in {0, 3}
        /\ Len(cx.result.lines) = 3 <=>
            (ContextNotSkipped /\ LookupAnsweredWithTagBeforeWindow)
        /\ cx.result.lookup = "timed_out" => cx.result.lines = <<>>

\* The call went on to build the context block: nothing skipped the lookup
\* and it answered in time with a tag above the window.
ContextBlockBuilt == ContextNotSkipped /\ LookupAnsweredWithTagBeforeWindow

\* C11: building the context block never panics and never overflows, for
\* every container_width, every tag pattern and both hosts: the subtractions
\* container_width - 2, container_width - 4 and max_pattern_len - 4 - 2 do
\* not underflow, so the call returns, and the pattern line it emits
\* (truncated or not, marker included) has at most container_width
\* characters.
C11_ContextBlockNeverUnderflows ==
    ContextBlockBuilt =>
        /\ cx.result.kind = "returned"
        /\ Len(cx.result.lines) = 3
        /\ Len(cx.result.lines[2]) <= cx.container_width

(***************************************************************************)
(* Claims about the preview orchestrator (specification Spec)              *)
(***************************************************************************)
\* A get_preview call has finished.
CallFinished == call.target # Nothing

\* The target of the latest finished call.
CallTarget == call.target[1]

\* The call found its target in the cache.
CallHit == CallFinished /\ call.cached # Nothing

\* The call did not find its target in the cache.
CallMiss == CallFinished /\ call.cached = Nothing

\* The Previews get_preview has produced: the one the latest call returned
\* and the ones in the cache.
ProducedPreviews ==
    (IF call.result.preview # Nothing THEN {call.result.preview[1]} ELSE {})
    \cup {preview_cache[target][1] :
            target \in {t \in PreviewTargets : preview_cache[t] # Nothing}}

\* C3: a get_preview call whose target is in the cache returns exactly the
\* cached Preview and does nothing else: it calls no primitive of any
\* preview routine and inserts nothing, so the cache still holds the
\* Preview it returned.
C3_CacheHitReturnsCachedOnly ==
    CallHit =>
        /\ call.result.kind = "Ok"
        /\ call.result.preview = call.cached
        /\ call.result.effects = {}
        /\ call.inserted = <<>>
        /\ cached_preview(preview_cache, CallTarget) = call.cached

\* A LineInFile target was requested again after its Preview was cached.
C3_Witness ==
    /\ CallHit
    /\ CallTarget = LineInFileTarget
    /\ call.result.preview = preview_cache[LineInFileTarget]
    /\ call.result.preview[1].hi_lnum # Nothing

\* C4 as stated: every get_preview call that misses the cache performs
\* exactly one insertion, keyed by its own target, whatever its routine
\* answers; a call that hits performs none.
C4_OneInsertionPerMiss ==
    /\ CallMiss => call.inserted = <<CallTarget>>
    /\ CallHit => call.inserted = <<>>

\* C4 as amended: a miss whose routine returns a Preview performs exactly
\* one insertion, of that Preview under its own target; a miss that returns
\* an error (of the routine or of the width query) performs none, and
\* neither does a hit.
C4_OneInsertionPerComputedPreview ==
    /\ (CallMiss /\ call.result.kind = "Ok") =>
        /\ call.inserted = <<CallTarget>>
        /\ cached_preview(preview_cache, CallTarget) = call.result.preview
    /\ (CallMiss /\ call.result.kind = "Err") => call.inserted = <<>>
    /\ CallHit => call.inserted = <<>>

\* A miss on the File target computed a Preview and inserted it once, while
\* another call is suspended.
C4_Witness ==
    /\ CallMiss
    /\ CallTarget = FileTarget
    /\ call.result.kind = "Ok"
    /\ call.inserted = <<FileTarget>>
    /\ preview_cache[FileTarget] = call.result.preview
    /\ pending # <<>>

\* C8: in every Preview get_preview produces, and so in every cached one,
\* sublime_syntax_highlights and tree_sitter_highlights are never both
\* non-empty, whatever engine is configured.
C8_HighlightFieldsExclusive ==
    \A preview \in ProducedPreviews :
        ~(preview.sublime_syntax_highlights # <<>>
          /\ preview.tree_sitter_highlights # <<>>)

\* A cached Preview carries spans of the tree-sitter engine only.
C8_Witness ==
    /\ env.engine = "TreeSitter"
    /\ preview_cache[LineInFileTarget] # Nothing
    /\ preview_cache[LineInFileTarget][1].tree_sitter_highlights # <<>>
    /\ preview_cache[LineInFileTarget][1].sublime_syntax_highlights = <<>>

\* C9: in every Preview get_preview produces, vim_syntax_info never has
\* both its syntax name and its fallback filename, and it is empty when the
\* Preview got its sublime or tree-sitter field from an engine result.
C9_SyntaxInfoOneSidedAndEmptyWithHighlights ==
    /\ \A preview \in ProducedPreviews :
        ~(preview.vim_syntax_info.syntax # ""
          /\ preview.vim_syntax_info.fname # <<>>)
    /\ (CallMiss /\ call.result.kind = "Ok"
        /\ call.result.highlights \in {"Sublime", "TreeSitter"}) =>
            is_empty(call.result.preview[1].vim_syntax_info)
    /\ \A preview \in ProducedPreviews :
        (preview.sublime_syntax_highlights # <<>>
         \/ preview.tree_sitter_highlights # <<>>) =>
            is_empty(preview.vim_syntax_info)

\* The sublime engine answered a windowed preview, which carries its spans
\* and no syntax hint, while the cached whole-file Preview names a syntax.
C9_Witness ==
    /\ CallMiss
    /\ call.result.highlights = "Sublime"
    /\ call.result.preview[1].sublime_syntax_highlights # <<>>
    /\ is_empty(call.result.preview[1].vim_syntax_info)
    /\ preview_cache[FileTarget] # Nothing
    /\ preview_cache[FileTarget][1].vim_syntax_info.syntax = "rust"

\* The windowed Previews get_preview has produced for the LineInFile target:
\* the ones with a highlight index.
WindowedPreviews ==
    {preview \in
        (IF CallFinished /\ CallTarget = LineInFileTarget
            /\ call.result.preview # Nothing
         THEN {call.result.preview[1]} ELSE {})
        \cup (IF preview_cache[LineInFileTarget] # Nothing
              THEN {preview_cache[LineInFileTarget][1]} ELSE {}) :
        preview.hi_lnum # Nothing}

\* The window the LineInFile target is previewed from.
TargetWindow ==
    get_file_preview(FileContents, LineInFileTarget.line_number,
                     preview_height)

\* The line fetch_context_lines reads as the highlighted one (line 672), as
\* the Preview shows it.
MatchedLine ==
    TakeChars(TargetWindow.lines[TargetWindow.highlight_lnum], max_line_width)

\* The number of context lines of a windowed Preview.
ContextCount(preview) == Len(preview.lines) - 1 - Len(TargetWindow.lines)

\* C14 as stated: in a windowed Preview, with lines = [header] +
\* context_lines + window_lines, the line at 1-based position hi_lnum is the
\* window line fetch_context_lines reads as the highlighted line, with zero
\* or three context lines.
C14_HiLnumIsOneBasedIndexOfMatch ==
    \A preview \in WindowedPreviews :
        /\ ContextCount(preview) \in {0, 3}
        /\ preview.hi_lnum[1] \in DOMAIN preview.lines
        /\ preview.lines[preview.hi_lnum[1]] = MatchedLine
        /\ preview.hi_lnum[1] =
            1 + ContextCount(preview) + TargetWindow.highlight_lnum

\* C14 as amended: hi_lnum is the 0-based index of the matched line within
\* lines: the line at 1-based position hi_lnum + 1 is the window line
\* fetch_context_lines reads as the highlighted line, with zero or three
\* context lines.
C14_HiLnumIsZeroBasedIndexOfMatch ==
    \A preview \in WindowedPreviews :
        /\ ContextCount(preview) \in {0, 3}
        /\ preview.hi_lnum[1] + 1 \in DOMAIN preview.lines
        /\ preview.lines[preview.hi_lnum[1] + 1] = MatchedLine
        /\ preview.hi_lnum[1] + 1 =
            1 + ContextCount(preview) + TargetWindow.highlight_lnum

\* A cached windowed Preview with three context lines: header, border,
\* pattern line, border, then the window, the matched line fifth.
C14_Witness ==
    /\ preview_cache[LineInFileTarget] # Nothing
    /\ LET preview == preview_cache[LineInFileTarget][1]
       IN /\ preview.hi_lnum = Some(4)
          /\ Len(preview.lines) = 4 + Len(TargetWindow.lines)
          /\ preview.lines[3] = <<"f", "n", " ", " ", "BULB">>
          /\ preview.lines[5] = CodeLine

\* The latest call missed on the LineInFile target and its window read
\* failed: the Err arm of lines 562-579 logged the failure.
WindowReadFailed ==
    /\ CallMiss
    /\ CallTarget = LineInFileTarget
    /\ "tracing::error" \in call.result.effects

\* The Preview of lines 573-577 but for its header line.
IsErrorPreview(preview) ==
    /\ Len(preview.lines) = 2
    /\ preview.lines[2] = ErrorLine(LineInFileTarget.path)
    /\ preview.vim_syntax_info = VimSyntaxInfo_fname(LineInFileTarget.path)
    /\ preview.hi_lnum = Nothing
    /\ preview.scrollbar = Nothing
    /\ preview.sublime_syntax_highlights = <<>>
    /\ preview.tree_sitter_highlights = <<>>

\* C15: a failed window read for a LineInFile target is not an error of
\* get_preview: the call succeeds with the two-line error Preview (header,
\* error line; only the fallback filename set, no hi_lnum, scrollbar or
\* highlight spans), that Preview is inserted into the cache under the
\* target, and a later request that finds it there returns it without
\* reading the file.
C15_FailedWindowReadYieldsCachedErrorPreview ==
    /\ WindowReadFailed =>
        /\ call.result.kind = "Ok"
        /\ call.result.preview # Nothing
        /\ IsErrorPreview(call.result.preview[1])
        /\ call.inserted = <<LineInFileTarget>>
        /\ preview_cache[LineInFileTarget] = call.result.preview
    /\ (/\ CallHit
        /\ CallTarget = LineInFileTarget
        /\ IsErrorPreview(call.cached[1])) =>
            /\ call.result.kind = "Ok"
            /\ call.result.preview = call.cached
            /\ call.result.effects = {}
            /\ call.inserted = <<>>

====
